---- MODULE Spec2Model ----
(***************************************************************************)
(* Model of analysis/report.py: the text normaliser, the keyword scorer    *)
(* (analyze_answers) and the batch orchestrator (generate_report).         *)
(*                                                                         *)
(* A Python str is a tuple of one-character strings.  A Python dict is a   *)
(* record [keys, val]: keys is the insertion order, val the mapping.       *)
(***************************************************************************)
EXTENDS Integers, Sequences, FiniteSets, TLC

(***************************************************************************)
(* Bounds of the model.                                                    *)
(***************************************************************************)
MaxAnswers == 2
LongBatch == 50
MaxModels == 3
MaxPrompts == 2

(***************************************************************************)
(* Python str operations.                                                  *)
(***************************************************************************)
Range(s) == {s[i] : i \in 1..Len(s)}

\* str.lower on one character of the model's alphabet
LowerChar(c) ==
  CASE c = "A" -> "a"
    [] c = "B" -> "b"
    [] c = "R" -> "r"
    [] OTHER -> c

\* str.lower
Lower(s) == [i \in 1..Len(s) |-> LowerChar(s[i])]

\* character class used by str.split() without arguments
IsSpace(c) == c = " "

\* k occurs in text at position i (1-based)
MatchAt(text, k, i) ==
  /\ i + Len(k) - 1 <= Len(text)
  /\ \A j \in 1..Len(k) : text[i + j - 1] = k[j]

\* k in text (the empty string is in every string)
Contains(text, k) == \E i \in 1..(Len(text) + 1) : MatchAt(text, k, i)

RECURSIVE CountFrom(_, _, _)
CountFrom(text, k, i) ==
  IF i + Len(k) - 1 > Len(text) THEN 0
  ELSE IF MatchAt(text, k, i) THEN 1 + CountFrom(text, k, i + Len(k))
  ELSE CountFrom(text, k, i + 1)

\* text.count(k): non-overlapping occurrences, scanning from the left;
\* Python counts the empty string len(text) + 1 times
Count(text, k) == IF k = <<>> THEN Len(text) + 1 ELSE CountFrom(text, k, 1)

RECURSIVE SplitFrom(_, _, _)
SplitFrom(s, i, word) ==
  IF i > Len(s) THEN (IF word = <<>> THEN <<>> ELSE <<word>>)
  ELSE IF IsSpace(s[i])
       THEN (IF word = <<>> THEN <<>> ELSE <<word>>) \o SplitFrom(s, i + 1, <<>>)
       ELSE SplitFrom(s, i + 1, Append(word, s[i]))

\* s.split(): the maximal runs of non-whitespace characters
Split(s) == SplitFrom(s, 1, <<>>)

RECURSIVE Join(_)
\* " ".join(parts)
Join(parts) ==
  IF parts = <<>> THEN <<>>
  ELSE IF Len(parts) = 1 THEN parts[1]
  ELSE parts[1] \o <<" ">> \o Join(Tail(parts))

\* lst[:n]
Take(lst, n) == SubSeq(lst, 1, IF Len(lst) < n THEN Len(lst) ELSE n)

(***************************************************************************)
(* normalize and contains_any.  An answer is [list, parts]: a str          *)
(* (list = FALSE, parts = <<the str>>) or a list of str fragments.         *)
(***************************************************************************)
Str(s) == [list |-> FALSE, parts |-> <<s>>]
Frags(parts) == [list |-> TRUE, parts |-> parts]

normalize(text) ==
  IF (text.list /\ text.parts = <<>>) \/ (~text.list /\ text.parts[1] = <<>>)
  THEN <<>>
  ELSE IF text.list THEN Lower(Join(text.parts))
  ELSE Lower(text.parts[1])

contains_any(text, keywords) ==
  \E i \in 1..Len(keywords) : Contains(text, keywords[i])

(***************************************************************************)
(* Python float arithmetic (IEEE 754 binary64, round to nearest, ties to   *)
(* even) for int((c / total) * 100).  A float is [x, e] and denotes        *)
(* x * 2^(e - 54): x is an integer written in limbs of 9 bits, least       *)
(* significant limb first, that has at most 53 significant bits.           *)
(***************************************************************************)
MantissaBits == 53
Base == 2^9

Reverse(s) == [i \in 1..Len(s) |-> s[Len(s) + 1 - i]]

RECURSIVE Pow2(_)
Pow2(k) == IF k = 0 THEN 1 ELSE 2 * Pow2(k - 1)

RECURSIVE ShiftUp(_, _, _)
\* least k with a * 2^k >= b
ShiftUp(a, b, k) == IF a * Pow2(k) >= b THEN k ELSE ShiftUp(a, b, k + 1)

RECURSIVE ShiftDown(_, _, _)
\* greatest k with b * 2^k <= a
ShiftDown(a, b, k) == IF b * Pow2(k + 1) > a THEN k ELSE ShiftDown(a, b, k + 1)

RECURSIVE DivLimbs(_, _, _)
\* the first n limbs of the fraction r / den (r < den), most significant
\* first, followed by the last remainder
DivLimbs(r, den, n) ==
  IF n = 0 THEN <<r>>
  ELSE <<(r * Base) \div den>> \o DivLimbs((r * Base) % den, den, n - 1)

RECURSIVE Normalize(_, _)
\* carry propagation: limbs may exceed Base on entry
Normalize(l, c) ==
  IF l = <<>> THEN (IF c = 0 THEN <<>> ELSE <<c>>)
  ELSE <<(Head(l) + c) % Base>> \o Normalize(Tail(l), (Head(l) + c) \div Base)

RECURSIVE NatOf(_)
NatOf(l) == IF l = <<>> THEN 0 ELSE Head(l) + Base * NatOf(Tail(l))

\* x rounded to a multiple of unit = 2^d (d <= 9), ties to even; sticky
\* tells of a non-zero part of the exact value below x's last bit
RoundLimbs(x, d, sticky) ==
  LET unit == Pow2(d)
      low == x[1] % unit
      odd == IF d = 9 THEN x[2] % 2 = 1 ELSE (x[1] \div unit) % 2 = 1
      up == \/ 2 * low > unit
            \/ 2 * low = unit /\ (sticky \/ odd)
  IN Normalize([x EXCEPT ![1] = x[1] - low + (IF up THEN unit ELSE 0)], 0)

\* c / total for ints c > 0, total > 0 (correctly rounded true division):
\* the quotient scaled into [1, 2) is cut to 55 bits, then rounded to 53
TrueDiv(c, total) ==
  LET up == IF c >= total THEN 0 ELSE ShiftUp(c, total, 0)
      down == IF c >= total THEN ShiftDown(c, total, 0) ELSE 0
      num == c * Pow2(up)
      den == total * Pow2(down)
      q == DivLimbs(num - den, den, 6)
      x == Reverse(SubSeq(q, 1, 6)) \o <<1>>
  IN [x |-> RoundLimbs(x, 55 - MantissaBits, q[7] # 0), e |-> down - up]

\* f * 100: the exact product has 61 or 62 bits and is rounded to 53
Times100(f) ==
  LET y == Normalize([i \in 1..Len(f.x) |-> f.x[i] * 100], 0)
      bits == IF y[7] >= Pow2(7) THEN 62 ELSE 61
  IN [x |-> RoundLimbs(y, bits - MantissaBits, FALSE), e |-> f.e]

\* int(f): truncation toward zero of a non-negative float below 2^21
FloatToInt(f) ==
  LET s == 54 - f.e
  IN IF s >= 9 * Len(f.x) THEN 0
     ELSE NatOf(SubSeq(f.x, (s \div 9) + 1, Len(f.x))) \div Pow2(s % 9)

\* int((c / total) * 100)
Percent(c, total) == IF c = 0 THEN 0 ELSE FloatToInt(Times100(TrueDiv(c, total)))

(***************************************************************************)
(* Python dict: keys in insertion order, val the mapping.                  *)
(***************************************************************************)
RECURSIVE FirstOccurrences(_, _)
\* the distinct elements of seq in the order of their first occurrence
FirstOccurrences(seq, seen) ==
  IF seq = <<>> THEN <<>>
  ELSE IF Head(seq) \in seen THEN FirstOccurrences(Tail(seq), seen)
  ELSE <<Head(seq)>> \o FirstOccurrences(Tail(seq), seen \cup {Head(seq)})

EmptyDict == [keys |-> <<>>, val |-> <<>>]

\* {k: 0 for k in seq}
ZeroDict(seq) == [keys |-> FirstOccurrences(seq, {}), val |-> [k \in Range(seq) |-> 0]]

HasKey(d, k) == k \in Range(d.keys)

\* d[k] = v
DictSet(d, k, v) ==
  [keys |-> IF HasKey(d, k) THEN d.keys ELSE Append(d.keys, k),
   val |-> [j \in Range(d.keys) \cup {k} |-> IF j = k THEN v ELSE d.val[j]]]

\* d.get(k, default)
DictGet(d, k, default) == IF HasKey(d, k) THEN d.val[k] ELSE default

\* dict(sorted(d.items(), key=lambda x: x[1], reverse=True)): a stable sort,
\* so equal counts keep their insertion order
SortedByValueDesc(d) ==
  LET n == Len(d.keys)
      before(i, j) == \/ d.val[d.keys[i]] > d.val[d.keys[j]]
                      \/ d.val[d.keys[i]] = d.val[d.keys[j]] /\ i < j
      rank(j) == 1 + Cardinality({i \in 1..n : before(i, j)})
  IN [keys |-> [r \in 1..n |-> d.keys[CHOOSE j \in 1..n : rank(j) = r]],
      val |-> d.val]

\* {k: int((c / total) * 100) for k, c in d.items() if c > 0}
VisibilityOf(d, total) ==
  LET kept == SelectSeq(d.keys, LAMBDA k : d.val[k] > 0)
  IN [keys |-> kept, val |-> [k \in Range(kept) |-> Percent(d.val[k], total)]]

(***************************************************************************)
(* analyze_answers.                                                        *)
(***************************************************************************)
StaticKeywords ==
  <<<<"s", "t", "r", "a", "t", "e", "g", "y">>,
    <<"r", "o", "a", "d", "m", "a", "p">>,
    <<"a", "r", "c", "h", "i", "t", "e", "c", "t", "u", "r", "e">>,
    <<"p", "l", "a", "n", "n", "i", "n", "g">>,
    <<"a", "n", "a", "l", "y", "s", "i", "s">>,
    <<"d", "e", "c", "i", "s", "i", "o", "n">>>>

\* [brand] + competitors
AllBrands(b, cs) == <<b>> \o cs

RECURSIVE BrandLoop(_, _, _, _)
\* for b in all_brands: ...  over one answer's text; st = [counts, found]
BrandLoop(all_brands, text, i, st) ==
  IF i > Len(all_brands) THEN st
  ELSE LET b == all_brands[i]
           bl == Lower(b)
       IN IF Contains(text, bl)
          THEN BrandLoop(all_brands, text, i + 1,
                 [counts |-> [st.counts EXCEPT ![b] = @ + Count(text, bl)],
                  found |-> TRUE])
          ELSE BrandLoop(all_brands, text, i + 1, st)

\* the keyword list built for persona p; p.split()[0] needs a first word
PersonaKeywords(p) == <<Lower(p), Lower(Split(p)[1])>> \o StaticKeywords

RECURSIVE PersonaLoop(_, _, _, _)
\* for p in personas: ...  over one answer's text; st = [counts, error]
PersonaLoop(ps, text, i, st) ==
  IF i > Len(ps) THEN st
  ELSE IF Split(ps[i]) = <<>> THEN [st EXCEPT !.error = "IndexError"]
  ELSE IF contains_any(text, PersonaKeywords(ps[i]))
       THEN PersonaLoop(ps, text, i + 1, [st EXCEPT !.counts[ps[i]] = @ + 1])
       ELSE PersonaLoop(ps, text, i + 1, st)

\* t.lower().split()[:4]
TopicKeywords(t) == Take(Split(Lower(t)), 4)

RECURSIVE TopicLoop(_, _, _, _)
\* for t in topics: ...  over one answer's text
TopicLoop(ts, text, i, counts) ==
  IF i > Len(ts) THEN counts
  ELSE IF contains_any(text, TopicKeywords(ts[i]))
       THEN TopicLoop(ts, text, i + 1, [counts EXCEPT ![ts[i]] = @ + 1])
       ELSE TopicLoop(ts, text, i + 1, counts)

\* the counters on entry to the loop over the answers
InitialCounts(b, cs, ps, ts) ==
  [brand_counts |-> ZeroDict(AllBrands(b, cs)),
   brand_hit_answers |-> 0,
   persona_counts |-> ZeroDict(ps),
   topic_counts |-> ZeroDict(ts),
   error |-> "none"]

\* one iteration of "for ans in answers"
LoopBody(acc, ans, b, cs, ps, ts) ==
  LET text == normalize(ans)
      br == BrandLoop(AllBrands(b, cs), text, 1,
                      [counts |-> acc.brand_counts.val, found |-> FALSE])
      pe == PersonaLoop(ps, text, 1,
                        [counts |-> acc.persona_counts.val, error |-> "none"])
  IN IF pe.error # "none"
     THEN [acc EXCEPT !.error = pe.error]
     ELSE [brand_counts |-> [acc.brand_counts EXCEPT !.val = br.counts],
           brand_hit_answers |-> acc.brand_hit_answers + (IF br.found THEN 1 ELSE 0),
           persona_counts |-> [acc.persona_counts EXCEPT !.val = pe.counts],
           topic_counts |-> [acc.topic_counts EXCEPT
                               !.val = TopicLoop(ts, text, 1, acc.topic_counts.val)],
           error |-> "none"]

\* len(answers) or 1
TotalAnswers(as) == IF Len(as) = 0 THEN 1 ELSE Len(as)

\* the returned dict
Report(acc, total_answers) ==
  [brand_visibility |-> Percent(acc.brand_hit_answers, total_answers),
   brand_mentions |-> SortedByValueDesc(acc.brand_counts),
   persona_visibility |-> VisibilityOf(acc.persona_counts, total_answers),
   topic_visibility |-> VisibilityOf(acc.topic_counts, total_answers)]

RECURSIVE AnswersLoop(_, _, _, _, _, _, _)
AnswersLoop(as, i, acc, b, cs, ps, ts) ==
  IF i > Len(as) \/ acc.error # "none" THEN acc
  ELSE AnswersLoop(as, i + 1, LoopBody(acc, as[i], b, cs, ps, ts), b, cs, ps, ts)

\* analyze_answers as a function: [error, report]
analyze_answers(as, b, cs, ps, ts) ==
  LET acc == AnswersLoop(as, 1, InitialCounts(b, cs, ps, ts), b, cs, ps, ts)
  IN IF acc.error # "none"
     THEN [error |-> acc.error]
     ELSE [error |-> "none", report |-> Report(acc, TotalAnswers(as))]

(***************************************************************************)
(* State.  The first group is the scorer's (analyze_answers run as a loop  *)
(* of its own), the second the vocabulary both share, the third            *)
(* generate_report's locals, the last the model-invocation collaborator:   *)
(* backend is what each model answers to each prompt, acquired the         *)
(* get_llm calls made and invoked the invoke calls made.  A queued prompt  *)
(* is [text, src]: src, the position of its entry in prompts, is history   *)
(* the program does not read.                                              *)
(***************************************************************************)
VARIABLES pc, error,
          answers, idx, brand_counts, brand_hit_answers, persona_counts,
          topic_counts, report,
          brand, competitors, personas, topics,
          payload, prompts, models, prompts_by_model, answers_by_model,
          pi, mi, qi, si, llm, per_model, combined_answers, result,
          backend, acquired, invoked, scorer_calls

scorerVars == <<answers, idx, brand_counts, brand_hit_answers, persona_counts,
                topic_counts, report>>
vocabVars == <<brand, competitors, personas, topics>>
reportVars == <<payload, prompts, models, prompts_by_model, answers_by_model,
                pi, mi, qi, si, llm, per_model, combined_answers, result>>
llmVars == <<backend, acquired, invoked, scorer_calls>>
vars == <<pc, error, scorerVars, vocabVars, reportVars, llmVars>>

NoReport == [error |-> "unset"]
NoResult == [per_model |-> "unset"]
NoHandle == "none"

SeqsUpTo(S, n) == UNION {[1..k -> S] : k \in 0..n}
Repeat(x, n) == [i \in 1..n |-> x]

(***************************************************************************)
(* Inputs.                                                                 *)
(***************************************************************************)
BrandNames == {<<"A", "b">>}
CompetitorLists ==
  {<<>>, <<<<"b">>>>, <<<<"A", "b">>>>, <<<<"a", "b">>>>, <<<<"a", "a">>, <<"b">>>>}
PersonaLists ==
  {<<>>, <<<<"B", " ", "x">>>>, <<<<"x">>, <<"x">>>>, <<<<>>>>, <<<<" ">>>>}
TopicLists ==
  {<<>>, <<<<"x">>>>, <<<<>>>>, <<<<"b">>, <<"b">>>>,
   <<<<"x", " ", "x", " ", "x", " ", "X", " ", "b">>>>}
AnswerPool ==
  {Str(<<>>), Str(<<"A", "b", " ", "a", "b">>), Str(<<"a", "a", "a">>),
   Str(<<"R", "o", "a", "d", "m", "a", "p">>), Frags(<<<<"A">>, <<"b">>>>),
   Str(<<"x">>)}

ShortBatches == SeqsUpTo(AnswerPool, MaxAnswers)
\* h answers that mention the brand followed by answers that do not
LongBatches ==
  {Repeat(Str(<<"a", "b", " ", "x">>), h) \o Repeat(Str(<<"o">>), LongBatch - h) :
     h \in 0..LongBatch}
LongPersonaLists == {<<>>, <<<<"x">>>>}

(***************************************************************************)
(* analyze_answers, one iteration of its loop at a time.                   *)
(***************************************************************************)
Counters ==
  [brand_counts |-> brand_counts, brand_hit_answers |-> brand_hit_answers,
   persona_counts |-> persona_counts, topic_counts |-> topic_counts,
   error |-> "none"]

InitScorer ==
  /\ pc = "call" /\ error = "none"
  /\ \/ /\ answers \in ShortBatches
        /\ brand \in BrandNames /\ competitors \in CompetitorLists
        /\ personas \in PersonaLists /\ topics \in TopicLists
     \/ /\ answers \in LongBatches
        /\ brand \in BrandNames /\ competitors = <<>>
        /\ personas \in LongPersonaLists /\ topics = <<>>
  /\ idx = 0 /\ brand_counts = EmptyDict /\ brand_hit_answers = 0
  /\ persona_counts = EmptyDict /\ topic_counts = EmptyDict
  /\ report = NoReport
  /\ payload = <<>> /\ prompts = <<>> /\ models = <<>>
  /\ prompts_by_model = EmptyDict /\ answers_by_model = EmptyDict
  /\ pi = 0 /\ mi = 0 /\ qi = 0 /\ si = 0 /\ llm = NoHandle
  /\ per_model = EmptyDict /\ combined_answers = <<>> /\ result = NoResult
  /\ backend = <<>> /\ acquired = <<>> /\ invoked = <<>> /\ scorer_calls = 0

\* lines 30-39: the counters before the loop
Setup ==
  /\ pc = "call"
  /\ LET c == InitialCounts(brand, competitors, personas, topics)
     IN /\ brand_counts' = c.brand_counts
        /\ brand_hit_answers' = c.brand_hit_answers
        /\ persona_counts' = c.persona_counts
        /\ topic_counts' = c.topic_counts
  /\ idx' = 1
  /\ pc' = "loop"
  /\ UNCHANGED <<error, answers, report, vocabVars, reportVars, llmVars>>

\* lines 41-76: one answer scored
LoopStep ==
  /\ pc = "loop" /\ idx <= Len(answers)
  /\ LET c == LoopBody(Counters, answers[idx], brand, competitors, personas, topics)
     IN /\ c.error = "none"
        /\ brand_counts' = c.brand_counts
        /\ brand_hit_answers' = c.brand_hit_answers
        /\ persona_counts' = c.persona_counts
        /\ topic_counts' = c.topic_counts
  /\ idx' = idx + 1
  /\ UNCHANGED <<pc, error, answers, report, vocabVars, reportVars, llmVars>>

\* line 61: p.split()[0] on a persona without a word
LoopRaise ==
  /\ pc = "loop" /\ idx <= Len(answers)
  /\ LET c == LoopBody(Counters, answers[idx], brand, competitors, personas, topics)
     IN /\ c.error # "none"
        /\ error' = c.error
  /\ pc' = "raised"
  /\ UNCHANGED <<scorerVars, vocabVars, reportVars, llmVars>>

\* lines 78-96
Return ==
  /\ pc = "loop" /\ idx > Len(answers)
  /\ report' = Report(Counters, TotalAnswers(answers))
  /\ pc' = "returned"
  /\ UNCHANGED <<error, answers, idx, brand_counts, brand_hit_answers,
                 persona_counts, topic_counts, vocabVars, reportVars, llmVars>>

NextScorer == Setup \/ LoopStep \/ LoopRaise \/ Return

SpecScorer == InitScorer /\ [][NextScorer]_vars

(***************************************************************************)
(* generate_report.                                                        *)
(***************************************************************************)
ModelIds == {"m1", "m2"}
PromptTexts == {"p", "q"}

\* an entry of prompts: a plain str, or a dict {model, prompt}
Plain(t) == [dict |-> FALSE, text |-> t]
Tagged(m, t) == [dict |-> TRUE, model |-> m, prompt |-> t]
\* the tagged entry's target is missing from the model lists without "m1"
PromptEntries == {Plain("p"), Tagged("m1", "q")}

\* what invoke returns: an object with a content attribute, or one without
Responses ==
  {[content |-> Str(<<"A", "b", " ", "a", "b">>)], [repr |-> <<"b", " ", "x">>]}
\* the backends whose answers differ, by the model alone or by the prompt alone
Backends ==
  {b \in [ModelIds -> [PromptTexts -> Responses]] :
     /\ \E m, n \in ModelIds : \E t, u \in PromptTexts : b[m][t] # b[n][u]
     /\ \/ \A m \in ModelIds : \A t, u \in PromptTexts : b[m][t] = b[m][u]
        \/ \A t \in PromptTexts : \A m, n \in ModelIds : b[m][t] = b[n][t]}

Vocabularies ==
  {[brand |-> <<"A", "b">>, competitors |-> <<<<"b">>, <<"A", "b">>>>,
    personas |-> <<<<"B", " ", "x">>>>, topics |-> <<<<"x">>>>],
   [brand |-> <<"A", "b">>, competitors |-> <<>>,
    personas |-> <<<<>>>>, topics |-> <<>>]}

FullPayloads ==
  {[brand |-> v.brand, competitors |-> v.competitors, personas |-> v.personas,
    topics |-> v.topics, prompts |-> ps, models |-> ms] :
     v \in Vocabularies,
     ps \in SeqsUpTo(PromptEntries, MaxPrompts),
     ms \in SeqsUpTo(ModelIds, MaxModels)}

Restrict(f, keys) == [k \in keys |-> f[k]]

\* payloads with every field, without brand, and without the optional fields
Payloads ==
  FullPayloads
    \cup {Restrict(f, DOMAIN f \ {"brand"}) : f \in FullPayloads}
    \cup {Restrict(f, {"brand", "competitors", "prompts"}) : f \in FullPayloads}
    \cup {Restrict(f, {"brand", "models"}) : f \in FullPayloads}

\* payload.get(key, [])
Get(f, key) == IF key \in DOMAIN f THEN f[key] ELSE <<>>

\* mutant of Subscript: the field read with a default instead of raising
SubscriptOrDefault(f, key) == [ok |-> TRUE, v |-> Get(f, key)]

\* payload[key]: [ok, v], a missing key raises KeyError
Subscript(f, key) ==
  IF key \in DOMAIN f THEN [ok |-> TRUE, v |-> f[key]] ELSE [ok |-> FALSE]

\* mutant of ListAppend: the element put in front
ListPrepend(lst, x) == <<x>> \o lst

\* lst.append(x)
ListAppend(lst, x) == Append(lst, x)

\* mutant of ListExtend: the list replaced instead of extended
ListReplace(lst, xs) == xs

\* lst.extend(xs)
ListExtend(lst, xs) == lst \o xs

\* d[k].append(x) on a defaultdict(list)
DefaultAppend(d, k, x) == DictSet(d, k, ListAppend(DictGet(d, k, <<>>), x))

\* response.content if hasattr(response, "content") else str(response)
ResponseContent(r) == IF "content" \in DOMAIN r THEN r.content ELSE Str(r.repr)

\* mutant of Propagate: the exception swallowed, the loop goes on
Swallow(at) == at

\* where control goes when a call raises: nothing in generate_report catches
Propagate(at) == "failed"

Init ==
  /\ pc = "start" /\ error = "none"
  /\ payload \in Payloads
  /\ backend \in Backends
  /\ brand = <<>> /\ competitors = <<>> /\ personas = <<>> /\ topics = <<>>
  /\ prompts = <<>> /\ models = <<>>
  /\ prompts_by_model = EmptyDict /\ answers_by_model = EmptyDict
  /\ pi = 0 /\ mi = 0 /\ qi = 0 /\ si = 0 /\ llm = NoHandle
  /\ per_model = EmptyDict /\ combined_answers = <<>> /\ result = NoResult
  /\ acquired = <<>> /\ invoked = <<>> /\ scorer_calls = 0
  /\ answers = <<>> /\ idx = 0 /\ brand_counts = EmptyDict /\ brand_hit_answers = 0
  /\ persona_counts = EmptyDict /\ topic_counts = EmptyDict /\ report = NoReport

\* lines 114-119 with brand present
ReadPayload ==
  /\ pc = "start"
  /\ Subscript(payload, "brand").ok
  /\ brand' = Subscript(payload, "brand").v
  /\ competitors' = Get(payload, "competitors")
  /\ personas' = Get(payload, "personas")
  /\ topics' = Get(payload, "topics")
  /\ prompts' = Get(payload, "prompts")
  /\ models' = Get(payload, "models")
  /\ pi' = 1
  /\ pc' = "route"
  /\ UNCHANGED <<error, scorerVars, payload, prompts_by_model, answers_by_model,
                 mi, qi, si, llm, per_model, combined_answers, result, llmVars>>

\* line 114 without brand: KeyError
ReadPayloadRaises ==
  /\ pc = "start"
  /\ ~Subscript(payload, "brand").ok
  /\ error' = "KeyError"
  /\ pc' = Propagate(pc)
  /\ UNCHANGED <<scorerVars, vocabVars, reportVars, llmVars>>

\* lines 126-127: a model-tagged entry goes to its model's queue
RouteTagged ==
  /\ pc = "route" /\ pi <= Len(prompts)
  /\ prompts[pi].dict
  /\ prompts_by_model' =
       DefaultAppend(prompts_by_model, prompts[pi].model,
                     [text |-> prompts[pi].prompt, src |-> pi])
  /\ pi' = pi + 1
  /\ UNCHANGED <<pc, error, scorerVars, vocabVars, payload, prompts, models,
                 answers_by_model, mi, qi, si, llm, per_model, combined_answers,
                 result, llmVars>>

RECURSIVE Broadcast(_, _, _, _)
\* for m in models: prompts_by_model[m].append(p)
Broadcast(d, ms, i, item) ==
  IF i > Len(ms) THEN d
  ELSE Broadcast(DefaultAppend(d, ms[i], item), ms, i + 1, item)

\* lines 128-131: a plain entry goes to the queue of every model in models
RouteBroadcast ==
  /\ pc = "route" /\ pi <= Len(prompts)
  /\ ~prompts[pi].dict
  /\ prompts_by_model' =
       Broadcast(prompts_by_model, models, 1, [text |-> prompts[pi].text, src |-> pi])
  /\ pi' = pi + 1
  /\ UNCHANGED <<pc, error, scorerVars, vocabVars, payload, prompts, models,
                 answers_by_model, mi, qi, si, llm, per_model, combined_answers,
                 result, llmVars>>

\* line 124: the loop over prompts ends
RouteDone ==
  /\ pc = "route" /\ pi > Len(prompts)
  /\ mi' = 1
  /\ llm' = NoHandle
  /\ pc' = "generate"
  /\ UNCHANGED <<error, scorerVars, vocabVars, payload, prompts, models,
                 prompts_by_model, answers_by_model, pi, qi, si, per_model,
                 combined_answers, result, llmVars>>

\* line 137: get_llm(model) returns a handle
GetLlm ==
  /\ pc = "generate" /\ mi <= Len(models) /\ llm = NoHandle
  /\ acquired' = Append(acquired, models[mi])
  /\ llm' = models[mi]
  /\ qi' = 1
  /\ UNCHANGED <<pc, error, scorerVars, vocabVars, payload, prompts, models,
                 prompts_by_model, answers_by_model, pi, mi, si, per_model,
                 combined_answers, result, backend, invoked, scorer_calls>>

\* line 137: get_llm(model) raises
GetLlmRaises ==
  /\ pc = "generate" /\ mi <= Len(models) /\ llm = NoHandle
  /\ acquired' = Append(acquired, models[mi])
  /\ error' = "LLMError"
  /\ pc' = Propagate(pc)
  /\ UNCHANGED <<scorerVars, vocabVars, reportVars, backend, invoked, scorer_calls>>

\* prompts_by_model.get(model, [])
Queue == DictGet(prompts_by_model, models[mi], <<>>)

\* the call llm.invoke(prompt) as the collaborator logs it
Call == [mi |-> mi, model |-> llm, src |-> Queue[qi].src, text |-> Queue[qi].text]

\* lines 140-142: one prompt answered
Invoke ==
  /\ pc = "generate" /\ mi <= Len(models) /\ llm # NoHandle
  /\ qi <= Len(Queue)
  /\ invoked' = Append(invoked, Call)
  /\ answers_by_model' =
       DefaultAppend(answers_by_model, models[mi],
                     ResponseContent(backend[llm][Queue[qi].text]))
  /\ qi' = qi + 1
  /\ UNCHANGED <<pc, error, scorerVars, vocabVars, payload, prompts, models,
                 prompts_by_model, pi, mi, si, llm, per_model, combined_answers,
                 result, backend, acquired, scorer_calls>>

\* line 140: llm.invoke(prompt) raises
InvokeRaises ==
  /\ pc = "generate" /\ mi <= Len(models) /\ llm # NoHandle
  /\ qi <= Len(Queue)
  /\ invoked' = Append(invoked, Call)
  /\ error' = "LLMError"
  /\ pc' = Propagate(pc)
  /\ UNCHANGED <<scorerVars, vocabVars, reportVars, backend, acquired, scorer_calls>>

\* line 139: the model's prompts are exhausted, on to the next model
NextModel ==
  /\ pc = "generate" /\ mi <= Len(models) /\ llm # NoHandle
  /\ qi > Len(Queue)
  /\ mi' = mi + 1
  /\ llm' = NoHandle
  /\ UNCHANGED <<pc, error, scorerVars, vocabVars, payload, prompts, models,
                 prompts_by_model, answers_by_model, pi, qi, si, per_model,
                 combined_answers, result, llmVars>>

\* line 136: the loop over models ends; lines 145-146
GenerateDone ==
  /\ pc = "generate" /\ mi > Len(models)
  /\ per_model' = EmptyDict
  /\ combined_answers' = <<>>
  /\ si' = 1
  /\ pc' = "score"
  /\ UNCHANGED <<error, scorerVars, vocabVars, payload, prompts, models,
                 prompts_by_model, answers_by_model, pi, mi, qi, llm, result,
                 llmVars>>

\* the answers of the model at position si of answers_by_model.items()
ModelAnswers == answers_by_model.val[answers_by_model.keys[si]]

\* lines 148-156: one model's answers scored
AnalyzeModel ==
  /\ pc = "score" /\ si <= Len(answers_by_model.keys)
  /\ LET r == analyze_answers(ModelAnswers, brand, competitors, personas, topics)
     IN /\ r.error = "none"
        /\ per_model' = DictSet(per_model, answers_by_model.keys[si], r.report)
  /\ combined_answers' = ListExtend(combined_answers, ModelAnswers)
  /\ scorer_calls' = scorer_calls + 1
  /\ si' = si + 1
  /\ UNCHANGED <<pc, error, scorerVars, vocabVars, payload, prompts, models,
                 prompts_by_model, answers_by_model, pi, mi, qi, llm, result,
                 backend, acquired, invoked>>

\* line 149: analyze_answers raises
AnalyzeModelRaises ==
  /\ pc = "score" /\ si <= Len(answers_by_model.keys)
  /\ LET r == analyze_answers(ModelAnswers, brand, competitors, personas, topics)
     IN /\ r.error # "none"
        /\ error' = r.error
  /\ scorer_calls' = scorer_calls + 1
  /\ pc' = Propagate(pc)
  /\ UNCHANGED <<scorerVars, vocabVars, reportVars, backend, acquired, invoked>>

\* lines 159-170: the combined analysis and the return.  It cannot raise:
\* every answer of combined_answers was scored in the loop before.
ReturnResult ==
  /\ pc = "score" /\ si > Len(answers_by_model.keys)
  /\ LET r == analyze_answers(combined_answers, brand, competitors, personas, topics)
     IN /\ r.error = "none"
        /\ result' = [per_model |-> per_model, combined |-> r.report]
  /\ scorer_calls' = scorer_calls + 1
  /\ pc' = "done"
  /\ UNCHANGED <<error, scorerVars, vocabVars, payload, prompts, models,
                 prompts_by_model, answers_by_model, pi, mi, qi, si, llm,
                 per_model, combined_answers, backend, acquired, invoked>>

Next ==
  \/ ReadPayload \/ ReadPayloadRaises
  \/ RouteTagged \/ RouteBroadcast \/ RouteDone
  \/ GetLlm \/ GetLlmRaises \/ Invoke \/ InvokeRaises \/ NextModel \/ GenerateDone
  \/ AnalyzeModel \/ AnalyzeModelRaises \/ ReturnResult

Spec == Init /\ [][Next]_vars

(***************************************************************************)
(* Properties of analyze_answers, under SpecScorer.                        *)
(***************************************************************************)
RECURSIVE SeqSum(_)
SeqSum(q) == IF q = <<>> THEN 0 ELSE Head(q) + SeqSum(Tail(q))

\* max(1, len(answers))
AtLeastOne(n) == IF n < 1 THEN 1 ELSE n

NormalizedAnswer(i) == normalize(answers[i])

\* the answers in which some name of [brand] + competitors occurs
HitAnswers ==
  {i \in 1..Len(answers) :
     \E name \in Range(AllBrands(brand, competitors)) :
        Contains(NormalizedAnswer(i), Lower(name))}

\* the occurrences of name's lowercase form over all answers
Occurrences(name) ==
  SeqSum([i \in 1..Len(answers) |-> Count(NormalizedAnswer(i), Lower(name))])

\* the answers matching persona p's keyword set
PersonaAnswers(p) ==
  {i \in 1..Len(answers) : contains_any(NormalizedAnswer(i), PersonaKeywords(p))}

\* the answers matching topic t's keyword set
TopicAnswers(t) ==
  {i \in 1..Len(answers) : contains_any(NormalizedAnswer(i), TopicKeywords(t))}

FloorPercent(hits) == (100 * hits) \div AtLeastOne(Len(answers))

\* C2: the brand_visibility returned is an integer in 0..100 and equals
\* floor(100 * h / max(1, n)), h the number of answers in which at least
\* one name of [brand] + competitors occurs, n the number of answers.
C2_BrandVisibilityIsFloor ==
  pc = "returned" =>
    /\ report.brand_visibility \in 0..100
    /\ report.brand_visibility = FloorPercent(Cardinality(HitAnswers))

\* C3: brand_mentions has a key for every name of [brand] + competitors and
\* maps each name to the number of non-overlapping occurrences of its
\* lowercase form summed over all answers, also when a name is repeated.
C3_MentionsAreOccurrences ==
  pc = "returned" =>
    /\ Range(report.brand_mentions.keys) = Range(AllBrands(brand, competitors))
    /\ \A name \in Range(AllBrands(brand, competitors)) :
         report.brand_mentions.val[name] = Occurrences(name)

\* C4: persona_visibility holds exactly the personas matched by at least one
\* answer, each mapped to floor(100 * matching answers / max(1, n)), a value
\* in 0..100; topic_visibility likewise for topics.
C4_VisibilityIsShareOfAnswers ==
  pc = "returned" =>
    /\ Range(report.persona_visibility.keys) =
         {p \in Range(personas) : PersonaAnswers(p) # {}}
    /\ \A p \in Range(report.persona_visibility.keys) :
         /\ report.persona_visibility.val[p] \in 0..100
         /\ report.persona_visibility.val[p] = FloorPercent(Cardinality(PersonaAnswers(p)))
    /\ Range(report.topic_visibility.keys) =
         {t \in Range(topics) : TopicAnswers(t) # {}}
    /\ \A t \in Range(report.topic_visibility.keys) :
         /\ report.topic_visibility.val[t] \in 0..100
         /\ report.topic_visibility.val[t] = FloorPercent(Cardinality(TopicAnswers(t)))

\* C8: analyze_answers never fails on strings and lists of strings, the
\* empty or whitespace-only persona and topic included.
C8_ScorerNeverFails == pc # "raised"

(***************************************************************************)
(* Properties of generate_report, under Spec.                              *)
(***************************************************************************)
\* the calls of the log made on model m, in the order they were made
CallsOn(m) == SelectSeq(invoked, LAMBDA c : c.model = m)

\* what model m answered to its calls, in the order they were made
AnsweredBy(m) ==
  [i \in 1..Len(CallsOn(m)) |-> ResponseContent(backend[m][CallsOn(m)[i].text])]

RECURSIVE Flatten(_)
Flatten(lists) == IF lists = <<>> THEN <<>> ELSE Head(lists) \o Flatten(Tail(lists))

\* the mentions of name in the per-model reports, in per_model's order
PerModelMentions(name) ==
  [i \in 1..Len(result.per_model.keys) |->
     result.per_model.val[result.per_model.keys[i]].brand_mentions.val[name]]

\* C1: when generate_report returns, the combined report's brand_mentions
\* of every name of [brand] + competitors is the sum of that name's
\* brand_mentions over the reports of per_model.
C1_CombinedMentionsAreSum ==
  pc = "done" =>
    \A name \in Range(AllBrands(brand, competitors)) :
       result.combined.brand_mentions.val[name] = SeqSum(PerModelMentions(name))

\* two models with mentions of the same name, summed in combined
C1_Witness ==
  /\ pc = "done"
  /\ Len(result.per_model.keys) = 2
  /\ \E name \in Range(AllBrands(brand, competitors)) :
        /\ \A i \in 1..2 : PerModelMentions(name)[i] > 0
        /\ result.combined.brand_mentions.val[name] > PerModelMentions(name)[1]

\* C5: when generate_report returns, per_model has an entry for every model
\* of models: the Scorer's report of that model's answers, the empty-batch
\* report when no prompt was routed to it.
C5_EveryModelHasReport ==
  pc = "done" =>
    \A m \in Range(models) :
       /\ HasKey(result.per_model, m)
       /\ result.per_model.val[m] =
            analyze_answers(DictGet(answers_by_model, m, <<>>),
                            brand, competitors, personas, topics).report

\* C6: once get_llm or invoke has failed, the call has failed: nothing was
\* scored, nothing is returned, and no model or prompt is invoked after it.
C6_FailureAbortsBatch ==
  [][error' = "LLMError" =>
       /\ pc' = "failed"
       /\ result' = NoResult
       /\ per_model' = EmptyDict
       /\ scorer_calls' = 0
       /\ error = "LLMError" => (invoked' = invoked /\ acquired' = acquired)]_vars

\* the second model fails after the first was fully answered
C6_Witness ==
  /\ pc = "failed" /\ error = "LLMError"
  /\ mi = 2
  /\ HasKey(answers_by_model, models[1])
  /\ Len(invoked) >= 2

\* C7: a payload without brand fails with a missing-field error before any
\* model handle is acquired and before any prompt is invoked.
C7_MissingBrandFailsFast ==
  "brand" \notin DOMAIN payload =>
    /\ pc \in {"start", "failed"}
    /\ pc = "failed" => error = "KeyError"
    /\ acquired = <<>> /\ invoked = <<>>
    /\ result = NoResult

\* the failure, on a payload that names models and prompts
C7_Witness ==
  /\ "brand" \notin DOMAIN payload
  /\ pc = "failed" /\ error = "KeyError"
  /\ Len(Get(payload, "models")) > 0 /\ Len(Get(payload, "prompts")) > 0

\* the models that were answered, in the order of their first place in models
AnsweredModels ==
  SelectSeq(FirstOccurrences(models, {}), LAMBDA m : CallsOn(m) # <<>>)

\* C9: the calls are made in the order of the model list and, within a model,
\* in the order of prompts; per_model's keys follow the model list, and the
\* answers scored for combined are the per-model answer lists, each in call
\* order, concatenated in that order.
C9_SequentialOrder ==
  /\ \A i, j \in 1..Len(invoked) :
        i < j =>
          /\ invoked[i].mi <= invoked[j].mi
          /\ invoked[i].mi = invoked[j].mi => invoked[i].src <= invoked[j].src
  /\ \A i \in 1..Len(invoked) : invoked[i].model = models[invoked[i].mi]
  /\ pc = "done" =>
       /\ result.per_model.keys = AnsweredModels
       /\ combined_answers =
            Flatten([i \in 1..Len(AnsweredModels) |-> AnsweredBy(AnsweredModels[i])])
       /\ result.combined =
            analyze_answers(combined_answers, brand, competitors, personas, topics).report

\* two models answered, one of them twice, with different answers
C9_Witness ==
  /\ pc = "done"
  /\ Len(result.per_model.keys) = 2
  /\ Len(invoked) >= 3
  /\ \E i, j \in 1..Len(combined_answers) : combined_answers[i] # combined_answers[j]

\* the calls that sent entry j of prompts to model m
Sent(j, m) == {i \in 1..Len(invoked) : invoked[i].src = j /\ invoked[i].model = m}

\* C10: when generate_report returns, a tagged entry was invoked exactly once,
\* on its target and on no other model, and a plain entry exactly once on
\* each model of models, whatever models holds.
C10_EachEntrySentAsRouted ==
  pc = "done" =>
    \A j \in 1..Len(prompts) :
       IF prompts[j].dict
       THEN /\ Cardinality(Sent(j, prompts[j].model)) = 1
            /\ \A i \in 1..Len(invoked) :
                 invoked[i].src = j => invoked[i].model = prompts[j].model
       ELSE /\ \A m \in Range(models) : Cardinality(Sent(j, m)) = 1
            /\ \A i \in 1..Len(invoked) :
                 invoked[i].src = j => invoked[i].model \in Range(models)

====
